---- MODULE Spec2Model ----
(***************************************************************************)
(* Text-to-table reconstruction of the OCR edge function.                  *)
(*                                                                         *)
(* A string is a sequence of one-character strings.  A table result is a   *)
(* record [headers, rows, confidence]; a row (a JavaScript object          *)
(* Record<string,string>) is a function from its keys to its values.       *)
(* The variable handler holds one run of the request handler that calls    *)
(* the extraction and stores its result.                                   *)
(***************************************************************************)
EXTENDS Integers, Sequences, FiniteSets, TLC

VARIABLES text, words, pc, loop, lineDelimiter, lineResult, result, handler

vars == <<text, words, pc, loop, lineDelimiter, lineResult, result, handler>>

(***************************************************************************)
(* Bounds of the model.                                                    *)
(***************************************************************************)
MaxTextLen == 4

MaxCols == 5

MaxDataLines == 2

MaxWords == 6

MaxHeaderCount == 3

MaxRows == 2

(***************************************************************************)
(* Strings.                                                                *)
(***************************************************************************)
Range(s) == {s[i] : i \in 1..Len(s)}

Min2(a, b) == IF a < b THEN a ELSE b

\* mutant: the tab is not taken as whitespace
IsSpace_NoTab(c) == c \in {" ", "\n", "\r"}

\* \s of a JavaScript regular expression and String.prototype.trim
IsSpace(c) == c \in {" ", "\t", "\n", "\r"}

Digits == <<"0", "1", "2", "3", "4", "5", "6", "7", "8", "9">>

IsDigit(c) == \E d \in 1..10 : Digits[d] = c

DigitValue(c) == (CHOOSE d \in 1..10 : Digits[d] = c) - 1

\* index of the first character at or after i that is no whitespace
RECURSIVE SkipSpace(_, _)
SkipSpace(s, i) ==
  IF i <= Len(s) /\ IsSpace(s[i]) THEN SkipSpace(s, i + 1) ELSE i

\* index of the last character at or before i that is no whitespace
RECURSIVE SkipSpaceBack(_, _)
SkipSpaceBack(s, i) ==
  IF i >= 1 /\ IsSpace(s[i]) THEN SkipSpaceBack(s, i - 1) ELSE i

\* String.prototype.trim
Trim(s) == SubSeq(s, SkipSpace(s, 1), SkipSpaceBack(s, Len(s)))

\* a string is truthy iff it is not empty
Truthy(s) == s # <<>>

\* cells.map(c => c.trim())
TrimAll(cells) == [i \in 1..Len(cells) |-> Trim(cells[i])]

(***************************************************************************)
(* String.prototype.split.  A separator is named by a string; MatchEnd is  *)
(* the sticky match of the separator at position q: the index after the    *)
(* match, or 0 when the separator does not match at q.                     *)
(***************************************************************************)
MatchEnd(d, s, q) ==
  CASE d = "newline"    -> IF s[q] = "\n" THEN q + 1 ELSE 0
    [] d = "tab"        -> IF s[q] = "\t" THEN q + 1 ELSE 0
    [] d = "comma"      -> IF s[q] = "," THEN q + 1 ELSE 0
    [] d = "multispace" -> LET j == SkipSpace(s, q) IN IF j - q >= 2 THEN j ELSE 0
    [] d = "whitespace" -> LET j == SkipSpace(s, q) IN IF j - q >= 1 THEN j ELSE 0
    [] d = "pipe"       -> LET j == SkipSpace(s, q)
                           IN IF j <= Len(s) /\ s[j] = "|"
                              THEN SkipSpace(s, j + 1) ELSE 0

RECURSIVE SplitLoop(_, _, _, _, _)
SplitLoop(d, s, p, q, acc) ==
  IF q > Len(s) THEN Append(acc, SubSeq(s, p, Len(s)))
  ELSE LET e == MatchEnd(d, s, q)
       IN IF e = 0 THEN SplitLoop(d, s, p, q + 1, acc)
          ELSE SplitLoop(d, s, e, e, Append(acc, SubSeq(s, p, q - 1)))

Split(d, s) == IF s = <<>> THEN << <<>> >> ELSE SplitLoop(d, s, 1, 1, <<>>)

(***************************************************************************)
(* Results.                                                                *)
(***************************************************************************)
NoTable == [headers |-> <<>>, rows |-> <<>>, confidence |-> 0]

None == [none |-> TRUE]

\* row[key] = value on a JavaScript object: a later assignment to the same key
\* overwrites the earlier one
SetKey(rowData, key, value) ==
  [k \in (DOMAIN rowData) \cup {key} |-> IF k = key THEN value ELSE rowData[k]]

\* values[index] || ''
ValueAt(values, index) == IF index <= Len(values) THEN values[index] ELSE <<>>

(***************************************************************************)
(* detectDelimiter                                                         *)
(***************************************************************************)
Delimiters == <<"tab", "multispace", "pipe", "comma">>

SampleLines == 5

\* mutant: every line is sampled
Qualifies_AllLines(d, lines) ==
  LET n == Len(lines)
      counts == [i \in 1..n |-> Len(Split(d, lines[i]))]
  IN \A i \in 1..n : counts[i] > 1 /\ counts[i] = counts[1]

Qualifies(d, lines) ==
  LET n == Min2(SampleLines, Len(lines))
      counts == [i \in 1..n |-> Len(Split(d, lines[i]))]
  IN \A i \in 1..n : counts[i] > 1 /\ counts[i] = counts[1]

detectDelimiter(lines) ==
  IF \E k \in 1..Len(Delimiters) : Qualifies(Delimiters[k], lines)
  THEN Delimiters[CHOOSE k \in 1..Len(Delimiters) :
                    /\ Qualifies(Delimiters[k], lines)
                    /\ \A m \in 1..(k - 1) : ~Qualifies(Delimiters[m], lines)]
  ELSE "whitespace"

(***************************************************************************)
(* parseTextAsTable of the delimiter-based edge function                   *)
(***************************************************************************)
\* mutant: blank lines are kept
NonBlankLines_KeepBlank(t) == Split("newline", t)

NonBlankLines(t) == SelectSeq(Split("newline", t), LAMBDA l : Truthy(Trim(l)))

LineHeaders(delimiter, line) ==
  SelectSeq(TrimAll(Split(delimiter, line)), Truthy)

LineValues(delimiter, line) == TrimAll(Split(delimiter, line))

\* values.length >= headers.length * 0.8
AcceptsLine(values, headers) == 5 * Len(values) >= 4 * Len(headers)

\* headers.forEach((header, index) => { row[header] = values[index] || '' })
RECURSIVE LineRowFrom(_, _, _, _)
LineRowFrom(headers, values, index, row) ==
  IF index > Len(headers) THEN row
  ELSE LineRowFrom(headers, values, index + 1,
                   SetKey(row, headers[index], ValueAt(values, index)))

\* mutant: a header without a cell gets no entry
LineRow_NoPadding(headers, values) ==
  LineRowFrom(SubSeq(headers, 1, Min2(Len(headers), Len(values))), values, 1, <<>>)

\* mutant: the cells are read one place too far
LineRow_OffByOne(headers, values) ==
  LineRowFrom(headers, SubSeq(values, 2, Len(values)), 1, <<>>)

LineRow(headers, values) == LineRowFrom(headers, values, 1, <<>>)

\* mutant: the first rejected line ends the loop
RECURSIVE LineRows_StopAtRejected(_, _, _, _, _)
LineRows_StopAtRejected(lines, delimiter, headers, i, rows) ==
  IF i > Len(lines) THEN rows
  ELSE LET values == LineValues(delimiter, lines[i])
       IN IF AcceptsLine(values, headers)
          THEN LineRows_StopAtRejected(lines, delimiter, headers, i + 1,
                                       Append(rows, LineRow(headers, values)))
          ELSE rows

RECURSIVE LineRows(_, _, _, _, _)
LineRows(lines, delimiter, headers, i, rows) ==
  IF i > Len(lines) THEN rows
  ELSE LET values == LineValues(delimiter, lines[i])
       IN LineRows(lines, delimiter, headers, i + 1,
                   IF AcceptsLine(values, headers)
                   THEN Append(rows, LineRow(headers, values))
                   ELSE rows)

\* const delimiter = detectDelimiter(lines); "none" before the assignment
delimiterOf(t) ==
  LET lines == NonBlankLines(t)
  IN IF Len(lines) < 2 THEN "none" ELSE detectDelimiter(lines)

\* parseTextAsTable after the split into non-blank lines
tableOfLines(lines) ==
  IF Len(lines) < 2 THEN NoTable
  ELSE LET delimiter == detectDelimiter(lines)
           headers == LineHeaders(delimiter, lines[1])
       IN [headers |-> headers,
           rows |-> LineRows(lines, delimiter, headers, 2, <<>>),
           confidence |-> 85]

parseTextAsTableByLines(t) == tableOfLines(NonBlankLines(t))

(***************************************************************************)
(* Numbers in tokens.                                                      *)
(***************************************************************************)
\* /^\d+$/.test(word)
numericPattern(w) == w # <<>> /\ \A i \in 1..Len(w) : IsDigit(w[i])

\* parseInt of an all-digit word
RECURSIVE ParseIntUpTo(_, _)
ParseIntUpTo(w, n) ==
  IF n = 0 THEN 0 ELSE 10 * ParseIntUpTo(w, n - 1) + DigitValue(w[n])

parseInt(w) == ParseIntUpTo(w, Len(w))

\* Number.prototype.toString of a natural number
RECURSIVE toString(_)
toString(n) ==
  IF n < 10 THEN <<Digits[n + 1]>>
  ELSE Append(toString(n \div 10), Digits[(n % 10) + 1])

\* Math.round of a / b for a >= 0, b > 0: halves round up
RoundDiv(a, b) == (2 * a + b) \div (2 * b)

\* Array.prototype.findIndex, 0-based, -1 when no element matches
FindIndex(s, w) ==
  IF \E i \in 1..Len(s) : s[i] = w
  THEN (CHOOSE i \in 1..Len(s) : s[i] = w /\ \A k \in 1..(i - 1) : s[k] # w) - 1
  ELSE -1

RECURSIVE SeqMax(_)
SeqMax(s) ==
  IF Len(s) = 1 THEN s[1]
  ELSE LET m == SeqMax(Tail(s)) IN IF s[1] > m THEN s[1] ELSE m

RECURSIVE SeqMin(_)
SeqMin(s) ==
  IF Len(s) = 1 THEN s[1]
  ELSE LET m == SeqMin(Tail(s)) IN IF s[1] < m THEN s[1] ELSE m

\* String.prototype.toLowerCase on the letters of the alphabet
Upper == <<"A", "B", "C", "D", "E", "F", "G", "H", "I", "J", "K", "L", "M",
           "N", "O", "P", "Q", "R", "S", "T", "U", "V", "W", "X", "Y", "Z">>

Lower == <<"a", "b", "c", "d", "e", "f", "g", "h", "i", "j", "k", "l", "m",
           "n", "o", "p", "q", "r", "s", "t", "u", "v", "w", "x", "y", "z">>

ToLower(c) ==
  IF \E k \in 1..26 : Upper[k] = c
  THEN Lower[CHOOSE k \in 1..26 : Upper[k] = c] ELSE c

\* the pattern p (lower case) occurs in w at position i, ignoring case
OccursAt(p, w, i) ==
  /\ i + Len(p) - 1 <= Len(w)
  /\ \A k \in 1..Len(p) : ToLower(w[i + k - 1]) = p[k]

\* /p/i.test(w)
Contains(p, w) == \E i \in 1..Len(w) : OccursAt(p, w, i)

\* /p$/i.test(w)
EndsWith(p, w) == Len(w) >= Len(p) /\ OccursAt(p, w, Len(w) - Len(p) + 1)

(***************************************************************************)
(* parseWithPatternDetection                                               *)
(***************************************************************************)
\* the patterns that match anywhere in the word
headerPatternsAnywhere ==
  { <<"c", "u", "s", "t", "o", "m", "e", "r">>, <<"n", "a", "m", "e">>,
    <<"c", "o", "u", "n", "t", "r", "y">>, <<"e", "m", "a", "i", "l">>,
    <<"p", "h", "o", "n", "e">>, <<"a", "m", "o", "u", "n", "t">>,
    <<"p", "r", "i", "c", "e">>, <<"t", "o", "t", "a", "l">>,
    <<"d", "a", "t", "e">>, <<"s", "t", "a", "t", "u", "s">> }

\* the patterns anchored at the end of the word: /id$/i, /age$/i
headerPatternsAtEnd == { <<"i", "d">>, <<"a", "g", "e">> }

HeaderWindow == 10

MaxHeaders == 8

LongerThan == 2

isLikelyHeader(word) ==
  \/ \E p \in headerPatternsAnywhere : Contains(p, word)
  \/ \E p \in headerPatternsAtEnd : EndsWith(p, word)
  \/ (Len(word) > LongerThan /\ ~numericPattern(word))

\* mutant: every token of the stream is examined
RECURSIVE PatternHeaders_WholeStream(_, _, _)
PatternHeaders_WholeStream(ws, i, headers) ==
  IF i > Len(ws) THEN headers
  ELSE PatternHeaders_WholeStream(ws, i + 1,
         IF isLikelyHeader(ws[i]) /\ Len(headers) < MaxHeaders
         THEN Append(headers, ws[i]) ELSE headers)

RECURSIVE PatternHeaders(_, _, _)
PatternHeaders(ws, i, headers) ==
  IF i > Min2(HeaderWindow, Len(ws)) THEN headers
  ELSE PatternHeaders(ws, i + 1,
         IF isLikelyHeader(ws[i]) /\ Len(headers) < MaxHeaders
         THEN Append(headers, ws[i]) ELSE headers)

\* for (j = 0; j < colCount; j++) row[headers[j]] = dataWords[i + j] || ''
\* (here i and j are 1-based)
RECURSIVE ChunkRowFrom(_, _, _, _, _)
ChunkRowFrom(headers, dataWords, i, j, row) ==
  IF j > Len(headers) THEN row
  ELSE ChunkRowFrom(headers, dataWords, i, j + 1,
                    SetKey(row, headers[j], ValueAt(dataWords, i + j - 1)))

ChunkRow(headers, dataWords, i) == ChunkRowFrom(headers, dataWords, i, 1, <<>>)

\* Object.values(row).some(v => v.trim())
SomeValue(row) == \E h \in DOMAIN row : Truthy(Trim(row[h]))

RECURSIVE ChunkRows(_, _, _, _)
ChunkRows(headers, dataWords, i, rows) ==
  IF i > Len(dataWords) THEN rows
  ELSE LET row == ChunkRow(headers, dataWords, i)
       IN ChunkRows(headers, dataWords, i + Len(headers),
                    IF SomeValue(row) THEN Append(rows, row) ELSE rows)

\* mutant: without headers the result keeps the confidence of the fallback
parseWithPatternDetection_NoEmptyResult(ws) ==
  LET headers == PatternHeaders(ws, 1, <<>>)
  IN IF Len(headers) = 0
     THEN [headers |-> <<>>, rows |-> <<>>, confidence |-> 75]
     ELSE LET dataWords == SubSeq(ws, Len(headers) + 1, Len(ws))
          IN [headers |-> headers,
              rows |-> ChunkRows(headers, dataWords, 1, <<>>),
              confidence |-> 75]

\* mutant: the confidence grows with the number of headers found
parseWithPatternDetection_ConfidenceByHeaders(ws) ==
  LET headers == PatternHeaders(ws, 1, <<>>)
  IN IF Len(headers) = 0 THEN NoTable
     ELSE LET dataWords == SubSeq(ws, Len(headers) + 1, Len(ws))
          IN [headers |-> headers,
              rows |-> ChunkRows(headers, dataWords, 1, <<>>),
              confidence |-> 75 + Len(headers)]

parseWithPatternDetection(ws) ==
  LET headers == PatternHeaders(ws, 1, <<>>)
  IN IF Len(headers) = 0 THEN NoTable
     ELSE LET dataWords == SubSeq(ws, Len(headers) + 1, Len(ws))
          IN [headers |-> headers,
              rows |-> ChunkRows(headers, dataWords, 1, <<>>),
              confidence |-> 75]

(***************************************************************************)
(* parseWithKnownStructure                                                 *)
(***************************************************************************)
ColumnPrefix == <<"C", "o", "l", "u", "m", "n">>

\* headers[col] || `Column${col + 1}`, col 0-based
ColumnKey(headers, col) ==
  IF col + 1 <= Len(headers) /\ Truthy(headers[col + 1])
  THEN headers[col + 1] ELSE ColumnPrefix \o toString(col + 1)

\* mutant: any number ends the row
IsNextRowNumber_AnyNumber(value, rowNum) == numericPattern(value)

\* /^\d+$/.test(value) && parseInt(value) === rowNum + 1
IsNextRowNumber(value, rowNum) ==
  numericPattern(value) /\ parseInt(value) = rowNum + 1

\* the loop over the columns of one row; currentIndex is 0-based.  The state
\* of the loop is [rowData, hasData, currentIndex].
RECURSIVE RowCells(_, _, _, _, _, _)
RowCells(allDataWords, headers, columnCount, rowNum, col, st) ==
  IF ~(col < columnCount /\ st.currentIndex < Len(allDataWords)) THEN st
  ELSE LET value == ValueAt(allDataWords, st.currentIndex + 1)
       IN IF IsNextRowNumber(value, rowNum) THEN st
          ELSE RowCells(allDataWords, headers, columnCount, rowNum, col + 1,
                 [rowData |-> SetKey(st.rowData, ColumnKey(headers, col), value),
                  hasData |-> st.hasData \/ Truthy(Trim(value)),
                  currentIndex |-> st.currentIndex + 1])

SkipRowNumber(allDataWords, rowNum, currentIndex) ==
  IF allDataWords[currentIndex + 1] = toString(rowNum)
  THEN currentIndex + 1 ELSE currentIndex

\* mutant: the walk does not stop after rowCount rows
RECURSIVE KnownRows_NoRowLimit(_, _, _, _, _, _, _)
KnownRows_NoRowLimit(allDataWords, headers, columnCount, rowCount, rowNum, currentIndex, rows) ==
  IF ~(currentIndex < Len(allDataWords)) THEN rows
  ELSE LET st == RowCells(allDataWords, headers, columnCount, rowNum, 0,
                          [rowData |-> <<>>, hasData |-> FALSE,
                           currentIndex |->
                             SkipRowNumber(allDataWords, rowNum, currentIndex)])
       IN KnownRows_NoRowLimit(allDataWords, headers, columnCount, rowCount,
                               rowNum + 1, st.currentIndex,
                               IF st.hasData THEN Append(rows, st.rowData) ELSE rows)

\* the loop over the rows
RECURSIVE KnownRows(_, _, _, _, _, _, _)
KnownRows(allDataWords, headers, columnCount, rowCount, rowNum, currentIndex, rows) ==
  IF ~(rowNum <= rowCount /\ currentIndex < Len(allDataWords)) THEN rows
  ELSE LET st == RowCells(allDataWords, headers, columnCount, rowNum, 0,
                          [rowData |-> <<>>, hasData |-> FALSE,
                           currentIndex |->
                             SkipRowNumber(allDataWords, rowNum, currentIndex)])
       IN KnownRows(allDataWords, headers, columnCount, rowCount, rowNum + 1,
                    st.currentIndex,
                    IF st.hasData THEN Append(rows, st.rowData) ELSE rows)

\* mutant: the boundary token is taken as a header
headersBefore_Inclusive(ws, firstRowNumIndex) ==
  SelectSeq(SubSeq(ws, 1, firstRowNumIndex + 1), LAMBDA w : Len(Trim(w)) > 0)

\* words.slice(0, firstRowNumIndex).filter(h => h.trim().length > 0)
headersBefore(ws, firstRowNumIndex) ==
  SelectSeq(SubSeq(ws, 1, firstRowNumIndex), LAMBDA w : Len(Trim(w)) > 0)

\* mutant: the column count passed in is kept
adjustedColumnCount_Keep(headers, columnCount) == columnCount

\* if (headers.length !== columnCount) columnCount = headers.length
adjustedColumnCount(headers, columnCount) ==
  IF Len(headers) # columnCount THEN Len(headers) ELSE columnCount

parseWithKnownStructure(ws, columnCount, rowCount) ==
  LET firstRowNumIndex == FindIndex(ws, <<"1">>)
  IN IF firstRowNumIndex = -1 THEN parseWithPatternDetection(ws)
     ELSE LET headers == headersBefore(ws, firstRowNumIndex)
              cols == adjustedColumnCount(headers, columnCount)
              allDataWords == SubSeq(ws, firstRowNumIndex + 1, Len(ws))
          IN [headers |-> headers,
              rows |-> KnownRows(allDataWords, headers, cols, rowCount, 1, 0, <<>>),
              confidence |-> 95]

(***************************************************************************)
(* parseTableByPattern                                                     *)
(***************************************************************************)
MinRowNumber == 1

MaxRowNumber == 20

MinColumns == 2

MaxColumns == 10

\* mutant: 0 is taken as a row number
IsRowNumber_FromZero(w) == numericPattern(w) /\ parseInt(w) <= MaxRowNumber

IsRowNumber(w) ==
  numericPattern(w) /\ parseInt(w) >= MinRowNumber /\ parseInt(w) <= MaxRowNumber

\* the row numbers of the stream, in stream order
rowNumbersOf(ws) ==
  LET found == SelectSeq(ws, IsRowNumber)
  IN [i \in 1..Len(found) |-> parseInt(found[i])]

nonNumericWordsOf(ws) == SelectSeq(ws, LAMBDA w : ~numericPattern(w))

\* mutant: the span is taken one too small
numberOfRowsOf_OffByOne(rowNumbers) == SeqMax(rowNumbers) - SeqMin(rowNumbers)

\* maxRowNumber - minRowNumber + 1
numberOfRowsOf(rowNumbers) == SeqMax(rowNumbers) - SeqMin(rowNumbers) + 1

isSequential(rowNumbers) == Len(rowNumbers) = numberOfRowsOf(rowNumbers)

InColumnRange(n) == n >= MinColumns /\ n <= MaxColumns

parseTableByPattern(ws) ==
  LET rowNumbers == rowNumbersOf(ws)
  IN IF Len(rowNumbers) >= 2 /\ isSequential(rowNumbers)
     THEN LET numberOfRows == numberOfRowsOf(rowNumbers)
              firstRowIndex == FindIndex(ws, <<"1">>)
              estimatedColumns == RoundDiv(Len(nonNumericWordsOf(ws)), numberOfRows)
          IN IF firstRowIndex > 0 /\ InColumnRange(firstRowIndex)
             THEN parseWithKnownStructure(ws, firstRowIndex, numberOfRows)
             ELSE IF InColumnRange(estimatedColumns)
             THEN parseWithKnownStructure(ws, estimatedColumns, numberOfRows)
             ELSE parseWithPatternDetection(ws)
     ELSE parseWithPatternDetection(ws)

(***************************************************************************)
(* parseTextAsTable of the token-oriented edge function                    *)
(***************************************************************************)
MinWords == 6

\* text.split(/\s+/).filter(word => word.trim() && word.length > 0)
Tokenize(t) ==
  SelectSeq(Split("whitespace", t), LAMBDA w : Truthy(Trim(w)) /\ Len(w) > 0)

\* mutant: no stream is too short
tooFewWords_Never(ws) == FALSE

\* if (words.length < 6) return the empty result
tooFewWords(ws) == Len(ws) < MinWords

parseWords(ws) == IF tooFewWords(ws) THEN NoTable ELSE parseTableByPattern(ws)

parseTextAsTable(t) == parseWords(Tokenize(t))

(***************************************************************************)
(* Inputs.                                                                 *)
(***************************************************************************)
SeqsUpTo(S, n) == UNION {[1..m -> S] : m \in 0..n}

RECURSIVE JoinWith(_, _)
JoinWith(parts, sep) ==
  IF Len(parts) = 0 THEN <<>>
  ELSE IF Len(parts) = 1 THEN parts[1]
  ELSE parts[1] \o sep \o JoinWith(Tail(parts), sep)

\* every text of at most MaxTextLen characters over this alphabet
TextAlphabet == {"a", " ", "\t", "\n", "|", ","}

ShortTexts == SeqsUpTo(TextAlphabet, MaxTextLen)

\* line-oriented tables: a header line of k cells (all distinct, or the last
\* one repeating the first) and data lines of k - 2 .. k + 1 cells each, the
\* cells of a line joined by one of the separators
Separators == {<<" ">>, <<"\t">>, <<" ", " ">>, <<" ", "|", " ">>, <<",">>}

HeaderCell(k, j, dup) ==
  IF dup /\ j = k THEN <<"h", Lower[1]>> ELSE <<"h", Lower[j]>>

DataCell(i, j) == <<Lower[i], Lower[j]>>

GridText(k, dup, counts, sep) ==
  JoinWith(<< JoinWith([j \in 1..k |-> HeaderCell(k, j, dup)], sep) >>
           \o [i \in 1..Len(counts) |->
                 JoinWith([j \in 1..counts[i] |-> DataCell(i, j)], sep)],
           <<"\n">>)

CellCounts(k) == {c \in (k - 2)..(k + 1) : c >= 1}

GridTexts ==
  UNION { { GridText(k, dup, counts, sep) :
              dup \in BOOLEAN,
              counts \in UNION {[1..n -> CellCounts(k)] : n \in 1..MaxDataLines},
              sep \in Separators } :
          k \in 1..MaxCols }

\* Scenario A of the specification
ScenarioA ==
  JoinWith(<< JoinWith(<< <<"D", "a", "t", "e">>, <<"I", "t", "e", "m">>,
                          <<"Q", "t", "y">> >>, <<" ">>),
              JoinWith(<< <<"0", "1", "-", "0", "1", "-", "2", "0", "2", "4">>,
                          <<"R", "i", "c", "e">>, <<"2", "5">> >>, <<" ">>),
              JoinWith(<< <<"0", "2", "-", "0", "1", "-", "2", "0", "2", "4">>,
                          <<"O", "i", "l">>, <<"1", "0">> >>, <<" ">>) >>,
           <<"\n">>)

\* numbered tables written one row per line: a line of k headers, then for
\* r = 1..n a line with the marker r and counts[r] <= k + 1 cells
NumberedText(k, counts) ==
  JoinWith(<< JoinWith([j \in 1..k |-> HeaderCell(k, j, FALSE)], <<" ">>) >>
           \o [r \in 1..Len(counts) |->
                 JoinWith(<<toString(r)>> \o [j \in 1..counts[r] |-> DataCell(r, j)],
                          <<" ">>)],
           <<"\n">>)

NumberedTexts ==
  UNION { { NumberedText(k, counts) :
              counts \in UNION {[1..n -> 0..(k + 1)] : n \in 2..MaxRows} } :
          k \in 2..MaxHeaderCount }

\* tables of 2 columns and 2 lines whose cells are a word or a two-word phrase
PhraseCells == {<<"a", "b">>, <<"a", " ", "b">>}

PhraseTexts ==
  { JoinWith(<< JoinWith(<<c[1], c[2]>>, sep), JoinWith(<<c[3], c[4]>>, sep) >>,
             <<"\n">>) :
      c \in [1..4 -> PhraseCells], sep \in Separators }

\* tables of one line more than detectDelimiter samples: lines of 2 cells, the
\* last sampled line and the line after it of 1..3 cells, the line after the
\* sample with a separator of its own
LongText(sep, c, sepAfter, cAfter) ==
  JoinWith([i \in 1..(SampleLines + 1) |->
              IF i < SampleLines THEN JoinWith(<<DataCell(i, 1), DataCell(i, 2)>>, sep)
              ELSE IF i = SampleLines THEN JoinWith([j \in 1..c |-> DataCell(i, j)], sep)
              ELSE JoinWith([j \in 1..cAfter |-> DataCell(i, j)], sepAfter)],
           <<"\n">>)

LongTexts ==
  { LongText(sep, c, sepAfter, cAfter) :
      sep \in Separators, c \in 1..3, sepAfter \in Separators, cAfter \in 1..3 }

TextInputs ==
  ShortTexts \cup GridTexts \cup NumberedTexts \cup PhraseTexts \cup LongTexts
  \cup {ScenarioA}

\* every stream of at most MaxWords tokens over this vocabulary
Nam == <<"N", "a", "m">>

Qty == <<"Q", "t", "y">>

TokenVocabulary == {Nam, Qty, <<"1">>, <<"2">>, <<"3">>}

ShortStreams == SeqsUpTo(TokenVocabulary, MaxWords)

\* token streams of a numbered table: k headers, then for r = 1..n the marker
\* r and counts[r] <= k + 1 cell tokens
HeaderVocabulary == {Nam, Qty, <<"2">>}

TableStream(headers, counts) ==
  headers \o
  JoinWith([r \in 1..Len(counts) |->
              <<toString(r)>> \o [j \in 1..counts[r] |-> DataCell(r, j)]], <<>>)

TableStreams ==
  UNION { { TableStream(headers, counts) :
              headers \in [1..k -> HeaderVocabulary],
              counts \in UNION {[1..n -> 0..(k + 1)] : n \in 2..MaxRows} } :
          k \in 2..MaxHeaderCount }

\* Scenario B of the specification
ScenarioB ==
  << <<"N", "a", "m", "e">>, <<"A", "g", "e">>, <<"C", "i", "t", "y">>,
     <<"1">>, <<"S", "a", "m">>, <<"2", "3">>, <<"D", "e", "l", "h", "i">>,
     <<"2">>, <<"A", "n", "n", "e">>, <<"3", "0">>,
     <<"M", "u", "m", "b", "a", "i">> >>

\* Scenario C of the specification
ScenarioC ==
  << <<"C", "u", "s", "t", "o", "m", "e", "r", "I", "D">>,
     <<"C", "u", "s", "t", "o", "m", "e", "r", "N", "a", "m", "e">>,
     <<"C", "o", "u", "n", "t", "r", "y">>,
     <<"1">>, <<"S", "h", "u", "b", "h", "a", "m">>, <<"I", "n", "d", "i", "a">>,
     <<"2">>, <<"A", "m", "a", "n">>,
     <<"A", "u", "s", "t", "r", "a", "l", "i", "a">> >>

\* a numbered table of 2 columns and 20 rows whose last row holds the number w
TwentyRows(w) ==
  <<Nam, Qty>> \o
  JoinWith([r \in 1..MaxRowNumber |->
              <<toString(r), DataCell(1, 1),
                IF r = MaxRowNumber THEN w ELSE DataCell(1, 2)>>], <<>>)

\* a numbered table of 10 columns and 2 rows
TenColumns ==
  TableStream([j \in 1..MaxColumns |-> HeaderCell(MaxColumns, j, FALSE)],
              <<MaxColumns, MaxColumns>>)

\* every stream of MinWords tokens over a word, the row numbers 1 and 2 and
\* the numbers next to the row-number window
GateVocabulary ==
  {Nam, <<"1">>, <<"2">>, toString(MinRowNumber - 1), toString(MaxRowNumber + 1)}

GateStreams == [1..MinWords -> GateVocabulary]

WordInputs ==
  ShortStreams \cup TableStreams \cup GateStreams
  \cup {ScenarioB, ScenarioC, TenColumns,
        TwentyRows(toString(MaxRowNumber + 1)), TwentyRows(toString(MaxRowNumber + 2))}

(***************************************************************************)
(* The two edge functions as operations on one recognised text.            *)
(***************************************************************************)
Init ==
  /\ text \in TextInputs
  /\ words = <<>>
  /\ pc = "start"
  /\ loop = None
  /\ lineDelimiter = "none"
  /\ lineResult = None
  /\ result = None
  /\ handler = None

\* the delimiter-based edge function's parseTextAsTable
ParseByLines ==
  /\ lineResult = None
  /\ lineResult' = parseTextAsTableByLines(text)
  /\ lineDelimiter' = delimiterOf(text)
  /\ UNCHANGED <<text, words, pc, loop, result, handler>>

\* text.split(/\s+/).filter(...) of the token-oriented parseTextAsTable
SplitWords ==
  /\ pc = "start"
  /\ words' = Tokenize(text)
  /\ pc' = "tokenized"
  /\ UNCHANGED <<text, loop, lineDelimiter, lineResult, result, handler>>

\* the rest of the token-oriented parseTextAsTable
ParseWords ==
  /\ pc = "tokenized"
  /\ result' = parseWords(words)
  /\ pc' = "done"
  /\ UNCHANGED <<text, words, loop, lineDelimiter, lineResult, handler>>

Next == ParseByLines \/ SplitWords \/ ParseWords

Spec == Init /\ [][Next]_vars

\* the delimiter-based parser alone, on the texts that have lines
LineInputs ==
  GridTexts \cup NumberedTexts \cup PhraseTexts \cup LongTexts \cup {ScenarioA}

InitLines ==
  /\ text \in LineInputs
  /\ words = <<>>
  /\ pc = "start"
  /\ loop = None
  /\ lineDelimiter = "none"
  /\ lineResult = None
  /\ result = None
  /\ handler = None

NextLines == ParseByLines

SpecLines == InitLines /\ [][NextLines]_vars

(***************************************************************************)
(* The token-oriented edge function with its two row loops taken one       *)
(* iteration at a time.  The variable loop holds the locals of the loop    *)
(* that is running.                                                        *)
(***************************************************************************)
\* the arguments of the call of parseWithKnownStructure in
\* parseTableByPattern, None when it is not called
knownStructureCall(ws) ==
  LET rowNumbers == rowNumbersOf(ws)
  IN IF Len(rowNumbers) >= 2 /\ isSequential(rowNumbers)
     THEN LET numberOfRows == numberOfRowsOf(rowNumbers)
              firstRowIndex == FindIndex(ws, <<"1">>)
              estimatedColumns == RoundDiv(Len(nonNumericWordsOf(ws)), numberOfRows)
          IN IF firstRowIndex > 0 /\ InColumnRange(firstRowIndex)
             THEN [columnCount |-> firstRowIndex, rowCount |-> numberOfRows]
             ELSE IF InColumnRange(estimatedColumns)
             THEN [columnCount |-> estimatedColumns, rowCount |-> numberOfRows]
             ELSE None
     ELSE None

\* mutant: the fallback goes on without headers
noHeaders_Never(headers) == FALSE

\* if (headers.length === 0) return the empty result
noHeaders(headers) == Len(headers) = 0

\* parseTextAsTable, parseTableByPattern and the statements of the called
\* parser up to its row loop
EnterParser ==
  /\ pc = "tokenized"
  /\ LET call == knownStructureCall(words)
         firstRowNumIndex == FindIndex(words, <<"1">>)
     IN IF tooFewWords(words)
        THEN result' = NoTable /\ pc' = "done" /\ UNCHANGED loop
        ELSE IF call # None /\ firstRowNumIndex # -1
        THEN LET headers == headersBefore(words, firstRowNumIndex)
             IN /\ loop' = [headers |-> headers,
                            columnCount |-> adjustedColumnCount(headers, call.columnCount),
                            rowCount |-> call.rowCount,
                            allDataWords |-> SubSeq(words, firstRowNumIndex + 1, Len(words)),
                            rowNum |-> 1,
                            currentIndex |-> 0,
                            rows |-> <<>>]
                /\ pc' = "walk"
                /\ UNCHANGED result
        ELSE LET headers == PatternHeaders(words, 1, <<>>)
             IN IF noHeaders(headers)
                THEN result' = NoTable /\ pc' = "done" /\ UNCHANGED loop
                ELSE /\ loop' = [headers |-> headers,
                                 dataWords |-> SubSeq(words, Len(headers) + 1, Len(words)),
                                 i |-> 1,
                                 rows |-> <<>>]
                     /\ pc' = "chunk"
                     /\ UNCHANGED result
  /\ UNCHANGED <<text, words, lineDelimiter, lineResult, handler>>

\* one iteration of the loop over the rows of parseWithKnownStructure
WalkRow ==
  /\ pc = "walk"
  /\ loop.rowNum <= loop.rowCount
  /\ loop.currentIndex < Len(loop.allDataWords)
  /\ LET st == RowCells(loop.allDataWords, loop.headers, loop.columnCount,
                        loop.rowNum, 0,
                        [rowData |-> <<>>, hasData |-> FALSE,
                         currentIndex |->
                           SkipRowNumber(loop.allDataWords, loop.rowNum,
                                         loop.currentIndex)])
     IN loop' = [loop EXCEPT !.rowNum = @ + 1,
                             !.currentIndex = st.currentIndex,
                             !.rows = IF st.hasData THEN Append(@, st.rowData) ELSE @]
  /\ UNCHANGED <<text, words, pc, lineDelimiter, lineResult, result, handler>>

\* the loop over the rows is left and parseWithKnownStructure returns
WalkEnd ==
  /\ pc = "walk"
  /\ ~(loop.rowNum <= loop.rowCount /\ loop.currentIndex < Len(loop.allDataWords))
  /\ result' = [headers |-> loop.headers, rows |-> loop.rows, confidence |-> 95]
  /\ pc' = "done"
  /\ UNCHANGED <<text, words, loop, lineDelimiter, lineResult, handler>>

\* one iteration of the loop over the chunks of parseWithPatternDetection
\* (i is 1-based)
ChunkStep ==
  /\ pc = "chunk"
  /\ loop.i <= Len(loop.dataWords)
  /\ LET row == ChunkRow(loop.headers, loop.dataWords, loop.i)
     IN loop' = [loop EXCEPT !.i = @ + Len(loop.headers),
                             !.rows = IF SomeValue(row) THEN Append(@, row) ELSE @]
  /\ UNCHANGED <<text, words, pc, lineDelimiter, lineResult, result, handler>>

\* the loop over the chunks is left and parseWithPatternDetection returns
ChunkEnd ==
  /\ pc = "chunk"
  /\ ~(loop.i <= Len(loop.dataWords))
  /\ result' = [headers |-> loop.headers, rows |-> loop.rows, confidence |-> 75]
  /\ pc' = "done"
  /\ UNCHANGED <<text, words, loop, lineDelimiter, lineResult, handler>>

\* the texts with lines and the texts of a few token streams; "02" is a row
\* number written with a leading zero
StepStreams ==
  [1..MinWords -> {Nam, <<"1">>, <<"2">>, <<"0", "2">>}]
  \cup {ScenarioB, ScenarioC, TenColumns,
        TwentyRows(toString(MaxRowNumber + 1)), TwentyRows(toString(MaxRowNumber + 2))}

StepInputs == LineInputs \cup {JoinWith(ws, <<" ">>) : ws \in StepStreams}

InitSteps ==
  /\ text \in StepInputs
  /\ words = <<>>
  /\ pc = "start"
  /\ loop = None
  /\ lineDelimiter = "none"
  /\ lineResult = None
  /\ result = None
  /\ handler = None

NextSteps ==
  ParseByLines \/ SplitWords \/ EnterParser \/ WalkRow \/ WalkEnd \/ ChunkStep \/ ChunkEnd

SpecSteps == InitSteps /\ [][NextSteps]_vars

\* the loops taken step by step return what the parsers return
StepsAgree ==
  /\ pc = "done" => result = parseWords(words)
  /\ pc = "tokenized" => words = Tokenize(text)

\* the token-oriented parser on token streams: the state after the split
InitWords ==
  /\ words \in WordInputs
  /\ text = JoinWith(words, <<" ">>)
  /\ pc = "tokenized"
  /\ loop = None
  /\ lineDelimiter = "none"
  /\ lineResult = None
  /\ result = None
  /\ handler = None

NextWords == ParseWords

SpecWords == InitWords /\ [][NextWords]_vars

(***************************************************************************)
(* The token-oriented edge function on streams that reach the keyword      *)
(* fallback: at every position either a header-like token or one that is   *)
(* not, up to MaxTail tokens beyond the window of the fallback.            *)
(***************************************************************************)
\* tokens that the fallback takes as headers: keywords in either case, of 2
\* characters and more, and words longer than 2 characters
HeaderLike ==
  << <<"I", "D">>, <<"A", "g", "e">>, <<"N", "a", "m">>,
     <<"N", "A", "M", "E">>, <<"Q", "t", "y">>,
     <<"e", "M", "a", "i", "l">>, <<"a", "1", "b">>,
     <<"D", "a", "t", "e">>, <<"T", "o", "t">>, <<"p", "i", "d">>,
     <<"S", "u", "m">>, <<"I", "d">>, <<"1", "2", "a">>,
     <<"K", "e", "y">> >>

\* tokens that it does not take: numbers, and words of 1 and 2 characters
\* that match no keyword
NotHeaderLike ==
  << <<"7">>, <<"a", "b">>, <<"1", "2", "3">>, <<"x">>, <<"a", "1">>,
     <<"9", "9">>, <<"A", "g">>, <<"I">>, <<"0">>, <<"d", "i">>,
     <<"4", "2">>, <<"z", "z">>, <<"4", "5", "6", "7">>,
     <<"a", "g">> >>

MaxTail == 2

TokenAt(list, p) == list[((p - 1) % Len(list)) + 1]

MaskedStream(mask) ==
  [p \in DOMAIN mask |->
     IF mask[p] THEN TokenAt(HeaderLike, p) ELSE TokenAt(NotHeaderLike, p)]

\* streams with a repeated header-like token
RepeatedHeaderStreams ==
  { <<Nam, Nam>> \o SubSeq(NotHeaderLike, 2, n) : n \in 5..8 }

PatternStreams ==
  { MaskedStream(mask) :
      mask \in UNION {[1..n -> BOOLEAN] : n \in MinWords..(HeaderWindow + MaxTail)} }
  \cup RepeatedHeaderStreams

InitPattern ==
  /\ words \in PatternStreams
  /\ text = JoinWith(words, <<" ">>)
  /\ pc = "tokenized"
  /\ loop = None
  /\ lineDelimiter = "none"
  /\ lineResult = None
  /\ result = None
  /\ handler = None

NextPattern == ParseWords

SpecPattern == InitPattern /\ [][NextPattern]_vars

(***************************************************************************)
(* The request handler of the edge function (serve).  Every await is one   *)
(* step.  A call of the database client returns { data, error } and does   *)
(* not throw: the handler sees an error only where it reads it.            *)
(***************************************************************************)
\* getEmptyData() of the second edge function
getEmptyData == [headers |-> <<>>, rows |-> <<>>, confidence |-> 0]

\* getDemoData() of the first edge function, cut to one column and one row
getDemoData ==
  [headers |-> << <<"e", "_", "i", "d">> >>,
   rows |-> << (<<"e", "_", "i", "d">> :> <<"1">>) >>,
   confidence |-> 95]

\* if (fileType === 'application/pdf') processWithGeminiPDF
\* else processWithGoogleVision; the first edge function has the second only
extractor(req) ==
  IF req.edge = "second" /\ req.fileType = "application/pdf"
  THEN "processWithGeminiPDF" ELSE "processWithGoogleVision"

\* a table that the recognizer returned: confidence 90 from a PDF, 95 from
\* an image
RecognizedTable(req) ==
  [headers |-> <<Nam>>, rows |-> <<(Nam :> Qty)>>,
   confidence |-> IF extractor(req) = "processWithGeminiPDF" THEN 90 ELSE 95]

\* what the extraction returns when the recognizers fail: their errors are
\* caught inside processWithGoogleVision and processWithGeminiPDF
extractionFallback(edge) == IF edge = "first" THEN getDemoData ELSE getEmptyData

\* the two edge functions and the requests they take
Requests ==
  [method : {"OPTIONS", "POST"}, edge : {"first"}, fileType : {"image"}]
  \cup [method : {"OPTIONS", "POST"}, edge : {"second"},
        fileType : {"image", "application/pdf"}]

InitServe ==
  /\ text = <<>>
  /\ words = <<>>
  /\ pc = "start"
  /\ loop = None
  /\ lineDelimiter = "none"
  /\ lineResult = None
  /\ result = None
  /\ \E req \in Requests :
       handler = [at |-> "request",
                  req |-> req,
                  processing_status |-> "pending",
                  job |-> None,
                  extractedData |-> None,
                  extractionFailed |-> FALSE,
                  extracted_data |-> None,
                  thrown |-> "none",
                  issued |-> <<>>,
                  response |-> None]

Step(next) == [handler EXCEPT !.at = next]

\* if (req.method === 'OPTIONS') return new Response('ok')
Options ==
  /\ handler.at = "request"
  /\ handler.req.method = "OPTIONS"
  /\ handler' = [Step("done") EXCEPT !.response = [body |-> "ok", status |-> 200]]
  /\ UNCHANGED <<text, words, pc, loop, lineDelimiter, lineResult, result>>

\* await req.json(), which throws on a body that is not JSON
ReadRequest ==
  /\ handler.at = "request"
  /\ handler.req.method # "OPTIONS"
  /\ \E ok \in BOOLEAN :
       handler' = IF ok THEN Step("setProcessing")
                  ELSE [Step("catch") EXCEPT !.thrown = "json"]
  /\ UNCHANGED <<text, words, pc, loop, lineDelimiter, lineResult, result>>

\* documents.update({ processing_status: 'processing' }); the error is not read
SetProcessing ==
  /\ handler.at = "setProcessing"
  /\ \E ok \in BOOLEAN :
       handler' = [Step("createJob") EXCEPT
                     !.processing_status = IF ok THEN "processing" ELSE @,
                     !.issued = Append(@, "documents.processing")]
  /\ UNCHANGED <<text, words, pc, loop, lineDelimiter, lineResult, result>>

\* processing_jobs.insert({ status: 'processing', progress: 10 });
\* if (jobError) throw jobError
CreateJob ==
  /\ handler.at = "createJob"
  /\ \E ok \in BOOLEAN :
       handler' = IF ok
                  THEN [Step("extract") EXCEPT
                          !.job = [status |-> "processing", progress |-> 10],
                          !.issued = Append(@, "jobs.insert")]
                  ELSE [Step("catch") EXCEPT
                          !.thrown = "jobError",
                          !.issued = Append(@, "jobs.insert")]
  /\ UNCHANGED <<text, words, pc, loop, lineDelimiter, lineResult, result>>

\* extractedData = await processWithGeminiPDF(fileUrl) or
\* processWithGoogleVision(fileUrl): neither lets an error out
Extract ==
  /\ handler.at = "extract"
  /\ \E ok \in BOOLEAN :
       handler' = [Step("progress") EXCEPT
                     !.extractedData =
                        IF ok THEN RecognizedTable(handler.req)
                        ELSE extractionFallback(handler.req.edge),
                     !.extractionFailed = ~ok]
  /\ UNCHANGED <<text, words, pc, loop, lineDelimiter, lineResult, result>>

\* processing_jobs.update({ progress: 80 }); the error is not read
UpdateProgress ==
  /\ handler.at = "progress"
  /\ \E ok \in BOOLEAN :
       handler' = [Step("storeData") EXCEPT
                     !.job = IF ok THEN [@ EXCEPT !.progress = 80] ELSE @,
                     !.issued = Append(@, "jobs.progress")]
  /\ UNCHANGED <<text, words, pc, loop, lineDelimiter, lineResult, result>>

\* extracted_data.insert(...); if (dataError) throw dataError
StoreData ==
  /\ handler.at = "storeData"
  /\ \E ok \in BOOLEAN :
       handler' = IF ok
                  THEN [Step("completeJob") EXCEPT
                          !.extracted_data = handler.extractedData,
                          !.issued = Append(@, "data.insert")]
                  ELSE [Step("catch") EXCEPT
                          !.thrown = "dataError",
                          !.issued = Append(@, "data.insert")]
  /\ UNCHANGED <<text, words, pc, loop, lineDelimiter, lineResult, result>>

\* processing_jobs.update({ status: 'completed', progress: 100 }); the error
\* is not read
CompleteJob ==
  /\ handler.at = "completeJob"
  /\ \E ok \in BOOLEAN :
       handler' = [Step("completeDocument") EXCEPT
                     !.job = IF ok THEN [status |-> "completed", progress |-> 100]
                             ELSE @,
                     !.issued = Append(@, "jobs.completed")]
  /\ UNCHANGED <<text, words, pc, loop, lineDelimiter, lineResult, result>>

\* documents.update({ processing_status: 'completed' }); the error is not read
CompleteDocument ==
  /\ handler.at = "completeDocument"
  /\ \E ok \in BOOLEAN :
       handler' = [Step("respond") EXCEPT
                     !.processing_status = IF ok THEN "completed" ELSE @,
                     !.issued = Append(@, "documents.completed")]
  /\ UNCHANGED <<text, words, pc, loop, lineDelimiter, lineResult, result>>

\* return new Response({ success: true, data, jobId }, { status: 200 })
Respond ==
  /\ handler.at = "respond"
  /\ handler' = [Step("done") EXCEPT
                   !.response = [success |-> TRUE, status |-> 200,
                                 data |-> handler.extractedData]]
  /\ UNCHANGED <<text, words, pc, loop, lineDelimiter, lineResult, result>>

\* catch (error): return new Response({ success: false }, { status: 400 })
Catch ==
  /\ handler.at = "catch"
  /\ handler' = [Step("done") EXCEPT
                   !.response = [success |-> FALSE, status |-> 400,
                                 error |-> handler.thrown]]
  /\ UNCHANGED <<text, words, pc, loop, lineDelimiter, lineResult, result>>

NextServe ==
  \/ Options \/ ReadRequest \/ SetProcessing \/ CreateJob \/ Extract
  \/ UpdateProgress \/ StoreData \/ CompleteJob \/ CompleteDocument
  \/ Respond \/ Catch

SpecServe == InitServe /\ [][NextServe]_vars

(***************************************************************************)
(* Claims.                                                                 *)
(***************************************************************************)
HasRows(r) == Len(r.rows) > 0

Distinct(s) == \A i, j \in 1..Len(s) : i # j => s[i] # s[j]

\* the result came out of the row walk of parseWithKnownStructure
ByRowNumbers(r) == r # None /\ r.confidence = 95

\* C1: the entry point returns the result of the first strategy, in the order
\* delimiter-based, row-number-anchored, keyword fallback, that produced at
\* least one row.
C1_RowNumberStrategy(ws) ==
  LET r == parseTableByPattern(ws) IN IF r.confidence = 95 THEN r ELSE NoTable

C1_FirstSuccessful(t) ==
  LET byLines == parseTextAsTableByLines(t)
      byNumbers == C1_RowNumberStrategy(Tokenize(t))
  IN IF HasRows(byLines) THEN byLines
     ELSE IF HasRows(byNumbers) THEN byNumbers
     ELSE parseWithPatternDetection(Tokenize(t))

C1_EntryReturnsFirstSuccessfulStrategy ==
  pc = "done" => result = C1_FirstSuccessful(text)

\* C2: when the delimiter-based line parser returns at least one row, the key
\* set of every row equals the set of the returned headers.
C2_LineRowsKeyedByHeaders ==
  (lineResult # None /\ HasRows(lineResult)) =>
    \A i \in 1..Len(lineResult.rows) :
      DOMAIN lineResult.rows[i] = Range(lineResult.headers)

\* a line parse in which a row lacks its trailing cell: the last header maps to
\* the empty string, the first one does not
C2_Witness ==
  /\ lineResult # None
  /\ Len(lineResult.headers) >= 2
  /\ \E i \in 1..Len(lineResult.rows) :
       LET row == lineResult.rows[i]
           hs == lineResult.headers
       IN /\ DOMAIN row = Range(hs)
          /\ row[hs[1]] # <<>>
          /\ row[hs[Len(hs)]] = <<>>

\* C3: every row of the row-number-anchored parser has an entry for every
\* returned header, also a row that was cut short.
C3_NumberedRowsHaveEveryHeader ==
  ByRowNumbers(result) =>
    \A i \in 1..Len(result.rows) :
      Range(result.headers) \subseteq DOMAIN result.rows[i]

\* C4: the headers of every result are pairwise distinct and non-blank.
C4_HeadersDistinctAndNonBlank ==
  /\ lineResult # None =>
       /\ Distinct(lineResult.headers)
       /\ \A i \in 1..Len(lineResult.headers) : Trim(lineResult.headers[i]) # <<>>
  /\ result # None =>
       /\ Distinct(result.headers)
       /\ \A i \in 1..Len(result.headers) : Trim(result.headers[i]) # <<>>

\* C5: the row-number-anchored parser never returns zero rows with
\* confidence 95.
C5_NoEmptyResultWithConfidence95 ==
  result # None => ~(Len(result.rows) = 0 /\ result.confidence = 95)

\* C6: the row-number-anchored parser returns at most max - min + 1 rows, min
\* and max being the smallest and largest all-digit tokens with value in 1..20.
C6_RowNumberValues(ws) ==
  {parseInt(ws[i]) : i \in {k \in 1..Len(ws) : IsRowNumber(ws[k])}}

C6_Span(ws) ==
  LET S == C6_RowNumberValues(ws)
      hi == CHOOSE n \in S : \A m \in S : m <= n
      lo == CHOOSE n \in S : \A m \in S : n <= m
  IN hi - lo + 1

C6_RowCountWithinRowNumberSpan ==
  ByRowNumbers(result) => Len(result.rows) <= C6_Span(words)

\* the row walk filled the whole span, and tokens were left over
C6_Witness ==
  /\ ByRowNumbers(result)
  /\ C6_Span(words) >= 2
  /\ Len(result.rows) = C6_Span(words)
  /\ Len(words) > Len(result.headers) + C6_Span(words) * (Len(result.headers) + 1)

\* C7: a text with fewer than 2 non-blank lines gives the empty result of the
\* delimiter-based line parser.
WhitespaceChars == {" ", "\t", "\n", "\r"}

C7_StartsNonBlankLine(t, i) ==
  /\ t[i] \notin WhitespaceChars
  /\ \A k \in 1..(i - 1) :
       t[k] \notin WhitespaceChars => \E m \in (k + 1)..(i - 1) : t[m] = "\n"

C7_NonBlankLineCount(t) ==
  Cardinality({i \in 1..Len(t) : C7_StartsNonBlankLine(t, i)})

C7_FewLinesGiveNoTable ==
  (lineResult # None /\ C7_NonBlankLineCount(text) < 2) => lineResult = NoTable

\* one non-blank line among several lines
C7_Witness ==
  /\ lineResult = NoTable
  /\ C7_NonBlankLineCount(text) = 1
  /\ \E i \in 1..Len(text) : text[i] = "\n"

\* C8: the empty string and every whitespace-only text give the
\* no-table-detected result.
C8_WhitespaceOnly(t) == \A i \in 1..Len(t) : t[i] \in WhitespaceChars

C8_BlankTextGivesNoTable ==
  C8_WhitespaceOnly(text) =>
    /\ pc = "done" => result = NoTable
    /\ lineResult # None => lineResult = NoTable

C8_Witness ==
  /\ C8_WhitespaceOnly(text)
  /\ Len(text) >= 3
  /\ \E i \in 1..Len(text) : text[i] = "\n"
  /\ \E i \in 1..Len(text) : text[i] = "\t"
  /\ pc = "done"
  /\ result = NoTable
  /\ lineResult = NoTable

\* C9: a token stream h1..hk, then for r = 1..n the token r and k data tokens,
\* 2 <= k <= 10, 2 <= n <= 20, gives the headers h1..hk, n rows that map hj to
\* the j-th token after marker r, and confidence 95; no marker is a cell value.
C9_MarkerAt(k, r) == k + (r - 1) * (k + 1) + 1

C9_Shape(ws, k, n) ==
  /\ Len(ws) = k + n * (k + 1)
  /\ \A r \in 1..n : ws[C9_MarkerAt(k, r)] = toString(r)

C9_InRange(w, lo, hi) ==
  /\ w # <<>>
  /\ \A i \in 1..Len(w) : IsDigit(w[i])
  /\ parseInt(w) >= lo
  /\ parseInt(w) <= hi

C9_Returned(ws, k, n, r) ==
  /\ r.headers = SubSeq(ws, 1, k)
  /\ Len(r.rows) = n
  /\ r.confidence = 95
  /\ \A i \in 1..Len(r.rows) :
       /\ \A j \in 1..k :
            /\ ws[j] \in DOMAIN r.rows[i]
            /\ r.rows[i][ws[j]] = ws[C9_MarkerAt(k, i) + j]
       /\ \A h \in DOMAIN r.rows[i] : ~C9_InRange(r.rows[i][h], 1, 20)

\* the claim as stated: no header is "1", no data token is a number in 1..20
C9_NumberedTableIsRecovered ==
  pc = "done" =>
    \A k \in 2..10, n \in 2..20 :
      ( /\ C9_Shape(words, k, n)
        /\ \A j \in 1..k : words[j] # <<"1">>
        /\ \A r \in 1..n, j \in 1..k :
             ~C9_InRange(words[C9_MarkerAt(k, r) + j], 1, 20) )
      => C9_Returned(words, k, n, result)

\* the claim as amended: the headers are pairwise distinct and none is a number
\* in 1..20, and no data token is a number in 1..21
C9_NumberedTableWithProperHeadersIsRecovered ==
  pc = "done" =>
    \A k \in 2..10, n \in 2..20 :
      ( /\ C9_Shape(words, k, n)
        /\ Distinct(SubSeq(words, 1, k))
        /\ \A j \in 1..k : ~C9_InRange(words[j], 1, 20)
        /\ \A r \in 1..n, j \in 1..k :
             ~C9_InRange(words[C9_MarkerAt(k, r) + j], 1, 21) )
      => C9_Returned(words, k, n, result)

\* Scenario B, parsed
C9_Witness ==
  /\ pc = "done"
  /\ words = ScenarioB
  /\ C9_Shape(words, 3, 2)
  /\ C9_Returned(words, 3, 2, result)
  /\ result.rows[2][<<"A", "g", "e">>] = <<"3", "0">>

\* C10: Scenario C is parsed by the keyword/pattern fallback, confidence 75.
C10_ScenarioCFallsBackTo75 ==
  (pc = "done" /\ words = ScenarioC) =>
    /\ result.confidence = 75
    /\ result = parseWithPatternDetection(words)

\* as amended: Scenario C is parsed by the row-number-anchored parser, with
\* confidence 95, the three tokens before "1" as headers, and 2 rows
C10_ScenarioCIsParsedByRowNumbers ==
  (pc = "done" /\ words = ScenarioC) =>
    /\ result.confidence = 95
    /\ result.headers = SubSeq(ScenarioC, 1, 3)
    /\ Len(result.rows) = 2

C10_Witness ==
  /\ pc = "done"
  /\ words = ScenarioC
  /\ result.confidence = 95
  /\ Len(result.rows) = 2

\* C11: a text of at least 2 lines, every line made of the same number k >= 2
\* of tokens separated by single spaces, no tab, pipe or comma anywhere, is
\* parsed by the delimiter-based line parser into the first line's tokens as
\* headers and one row per following line that maps header j to the j-th token
\* of the line, with confidence 85.
RECURSIVE C11_Cut(_, _)
C11_Cut(s, c) ==
  IF \A i \in 1..Len(s) : s[i] # c THEN <<s>>
  ELSE LET i == CHOOSE n \in 1..Len(s) : s[n] = c /\ \A m \in 1..(n - 1) : s[m] # c
       IN <<SubSeq(s, 1, i - 1)>> \o C11_Cut(SubSeq(s, i + 1, Len(s)), c)

C11_IsToken(w) ==
  w # <<>> /\ \A i \in 1..Len(w) : w[i] \notin WhitespaceChars \cup {"|", ","}

C11_Tokens(t, i) == C11_Cut(C11_Cut(t, "\n")[i], " ")

C11_Uniform(t) ==
  LET n == Len(C11_Cut(t, "\n"))
  IN /\ n >= 2
     /\ Len(C11_Tokens(t, 1)) >= 2
     /\ \A i \in 1..n :
          /\ Len(C11_Tokens(t, i)) = Len(C11_Tokens(t, 1))
          /\ \A j \in 1..Len(C11_Tokens(t, i)) : C11_IsToken(C11_Tokens(t, i)[j])

C11_Returned(t, r) ==
  /\ r.headers = C11_Tokens(t, 1)
  /\ Len(r.rows) = Len(C11_Cut(t, "\n")) - 1
  /\ r.confidence = 85
  /\ \A i \in 1..Len(r.rows), j \in 1..Len(r.headers) :
       /\ r.headers[j] \in DOMAIN r.rows[i]
       /\ r.rows[i][r.headers[j]] = C11_Tokens(t, i + 1)[j]

C11_SingleSpacedGridIsParsed ==
  (lineResult # None /\ C11_Uniform(text)) => C11_Returned(text, lineResult)

\* the same for a first line of pairwise distinct tokens
C11_DistinctHeadersGridIsParsed ==
  (lineResult # None /\ C11_Uniform(text) /\ Distinct(C11_Tokens(text, 1)))
    => C11_Returned(text, lineResult)

\* Scenario A of the specification, parsed
C11_ScenarioAIsParsed ==
  /\ text = ScenarioA
  /\ lineResult # None
  /\ C11_Uniform(text)
  /\ C11_Returned(text, lineResult)
  /\ lineResult.headers = << <<"D", "a", "t", "e">>, <<"I", "t", "e", "m">>, <<"Q", "t", "y">> >>
  /\ Len(lineResult.rows) = 2

\* C12: the confidence is fixed by the strategy, whatever the input: 85 for the
\* delimiter-based line parser, 95 for the row-number-anchored parser, 75 for
\* the keyword fallback, 0 for the no-table result; so every confidence is one
\* of 0, 75, 85, 95, and when the line parser and a token strategy both return
\* rows for one text, 95 > 85 > 75 orders them.
C12_TokensBeforeFirstOne(ws) ==
  SubSeq(ws, 1, (CHOOSE i \in 1..Len(ws) :
                   ws[i] = <<"1">> /\ \A k \in 1..(i - 1) : ws[k] # <<"1">>) - 1)

C12_ConfidenceIsFixedByStrategy ==
  /\ lineResult # None =>
       /\ lineResult.confidence = IF C7_NonBlankLineCount(text) < 2 THEN 0 ELSE 85
       /\ lineResult.confidence = 0 => lineResult = NoTable
  /\ result # None =>
       /\ result.confidence \in {0, 75, 95}
       /\ result.confidence = 0 => result = NoTable
       /\ result.confidence = 75 =>
            /\ result = parseWithPatternDetection(words)
            /\ Len(result.headers) >= 1
       /\ result.confidence = 95 =>
            /\ <<"1">> \in Range(words)
            /\ result.headers = C12_TokensBeforeFirstOne(words)
       /\ parseWithPatternDetection(words).confidence \in {0, 75}
  /\ (lineResult # None /\ result # None /\ HasRows(lineResult) /\ HasRows(result)) =>
       /\ lineResult.confidence = 85
       /\ result.confidence \in {75, 95}
       /\ lineResult.confidence # result.confidence

\* one text on which the line parser and the row-number-anchored parser both
\* return rows
C12_Witness ==
  /\ lineResult # None
  /\ result # None
  /\ HasRows(lineResult)
  /\ HasRows(result)
  /\ lineResult.confidence = 85
  /\ result.confidence = 95

\* one text on which the line parser and the keyword fallback both return rows
C12_WitnessFallback ==
  /\ lineResult # None
  /\ result # None
  /\ HasRows(lineResult)
  /\ HasRows(result)
  /\ lineResult.confidence = 85
  /\ result.confidence = 75

\* C13: a result (H, R) written out as one line of headers and one line per
\* row, the cells joined by the delimiter, is parsed by the delimiter-based
\* line parser into the same H and R.
C13_Separator(d) ==
  CASE d = "tab" -> <<"\t">>
    [] d = "multispace" -> <<" ", " ">>
    [] d = "pipe" -> <<"|">>
    [] d = "comma" -> <<",">>
    [] OTHER -> <<" ">>

C13_Cell(row, h) == IF h \in DOMAIN row THEN row[h] ELSE <<>>

C13_Serialize(r, sep) ==
  JoinWith(<< JoinWith(r.headers, sep) >>
           \o [i \in 1..Len(r.rows) |->
                 JoinWith([j \in 1..Len(r.headers) |->
                             C13_Cell(r.rows[i], r.headers[j])], sep)],
           <<"\n">>)

C13_RoundTrips(r, sep) ==
  LET again == parseTextAsTableByLines(C13_Serialize(r, sep))
  IN again.headers = r.headers /\ again.rows = r.rows

C13_PlainCell(c) ==
  /\ c # <<>>
  /\ c[1] \notin WhitespaceChars
  /\ c[Len(c)] \notin WhitespaceChars
  /\ \A i \in 1..Len(c) : c[i] \notin {"\t", "|", ","}
  /\ \A i \in 1..(Len(c) - 1) :
       ~(c[i] \in WhitespaceChars /\ c[i + 1] \in WhitespaceChars)

\* every non-blank line of the text splits at the detected delimiter into the
\* same number of plain cells
C13_Regular(t, d) ==
  LET lines == NonBlankLines(t)
  IN /\ Len(lines) >= 2
     /\ \A i \in 1..Len(lines) :
          LET cells == LineValues(d, lines[i])
          IN /\ Len(cells) = Len(LineValues(d, lines[1]))
             /\ \A j \in 1..Len(cells) : C13_PlainCell(cells[j])

C14_StepsLeft ==
  (IF lineResult = None THEN 1 ELSE 0)
  + CASE pc = "start" -> Len(text) + 4
      [] pc = "tokenized" -> Len(words) + 3
      [] pc = "walk" -> (loop.rowCount + 1 - loop.rowNum) + 1
      [] pc = "chunk" -> (Len(loop.dataWords) + Len(loop.headers) - loop.i) + 1
      [] pc = "done" -> 0

C14_WitnessChunks ==
  /\ pc = "done"
  /\ loop # None
  /\ result.confidence = 75
  /\ Len(loop.headers) = 1
  /\ Len(loop.dataWords) = 5
  /\ loop.i = 6
  /\ Len(result.rows) = 5

\* Scenario A: the loop over the chunks has run once, on a chunk shorter than
\* the header count
C14_WitnessShortChunk ==
  /\ pc = "done"
  /\ text = ScenarioA
  /\ loop # None
  /\ result.confidence = 75
  /\ Len(loop.headers) = 7
  /\ Len(loop.dataWords) = 2
  /\ loop.i = 8
  /\ Len(result.rows) = 1

\* C15: the delimiter is the first of tab, run of 2 or more whitespace
\* characters, pipe with optional whitespace around it, comma, for which the
\* first min(5, number of lines) lines all split into the same number of cells,
\* more than 1; if there is none it is any run of whitespace.  The lines after
\* the fifth have no influence.
C15_Lines(t) == SelectSeq(C11_Cut(t, "\n"), LAMBDA l : ~C8_WhitespaceOnly(l))

\* the number of places where the separator matches, plus 1
C15_Cells(d, l) ==
  1 + Cardinality(
        CASE d = "tab" -> {i \in 1..Len(l) : l[i] = "\t"}
          [] d = "pipe" -> {i \in 1..Len(l) : l[i] = "|"}
          [] d = "comma" -> {i \in 1..Len(l) : l[i] = ","}
          [] d = "multispace" ->
               {i \in 1..(Len(l) - 1) :
                  /\ l[i] \in WhitespaceChars
                  /\ l[i + 1] \in WhitespaceChars
                  /\ (i = 1 \/ l[i - 1] \notin WhitespaceChars)})

C15_Candidate(d, sample) ==
  \A i \in 1..Len(sample) :
    C15_Cells(d, sample[i]) > 1 /\ C15_Cells(d, sample[i]) = C15_Cells(d, sample[1])

C15_Choice(sample) ==
  IF C15_Candidate("tab", sample) THEN "tab"
  ELSE IF C15_Candidate("multispace", sample) THEN "multispace"
  ELSE IF C15_Candidate("pipe", sample) THEN "pipe"
  ELSE IF C15_Candidate("comma", sample) THEN "comma"
  ELSE "whitespace"

C15_FirstFive(lines) == SubSeq(lines, 1, IF Len(lines) < 5 THEN Len(lines) ELSE 5)

C15_DelimiterIsFirstCandidateOfFirstFiveLines ==
  (lineResult # None /\ Len(C15_Lines(text)) >= 2)
    => lineDelimiter = C15_Choice(C15_FirstFive(C15_Lines(text)))

\* a comma-separated text of 6 lines whose sixth line has another cell count
C15_Witness ==
  /\ lineResult # None
  /\ Len(C15_Lines(text)) = 6
  /\ lineDelimiter = "comma"
  /\ C15_Cells("comma", C15_Lines(text)[6]) # C15_Cells("comma", C15_Lines(text)[1])

\* C16: a data line of c cells is accepted iff 5 * c >= 4 * h, h being the
\* number of non-empty header cells; the row of an accepted line maps header j
\* to the j-th cell of the line for j <= c and to the empty string for j > c.
C16_AcceptedLines(t, d, h) ==
  SelectSeq(Tail(C15_Lines(t)), LAMBDA l : 5 * Len(LineValues(d, l)) >= 4 * h)

C16_RowsOfAcceptedLines(t, d, r) ==
  LET h == Len(r.headers)
      accepted == C16_AcceptedLines(t, d, h)
  IN /\ h = Cardinality({j \in 1..Len(LineValues(d, C15_Lines(t)[1])) :
                           LineValues(d, C15_Lines(t)[1])[j] # <<>>})
     /\ Len(r.rows) = Len(accepted)
     /\ \A i \in 1..Len(r.rows), j \in 1..h :
          LET cells == LineValues(d, accepted[i])
          IN /\ r.headers[j] \in DOMAIN r.rows[i]
             /\ r.rows[i][r.headers[j]] = IF j <= Len(cells) THEN cells[j] ELSE <<>>

C16_AcceptedLinesFillHeadersByPosition ==
  (lineResult # None /\ lineDelimiter # "none")
    => C16_RowsOfAcceptedLines(text, lineDelimiter, lineResult)

\* the same for pairwise distinct headers
C16_DistinctHeadersAreFilledByPosition ==
  (lineResult # None /\ lineDelimiter # "none" /\ Distinct(lineResult.headers))
    => C16_RowsOfAcceptedLines(text, lineDelimiter, lineResult)

\* 5 distinct headers, a line of 4 cells accepted and a line of 3 cells rejected
C16_DistinctHeadersWitness ==
  /\ lineResult # None
  /\ lineDelimiter = "whitespace"
  /\ Distinct(lineResult.headers)
  /\ Len(lineResult.headers) = 5
  /\ Len(C15_Lines(text)) = 3
  /\ Len(LineValues(lineDelimiter, C15_Lines(text)[2])) = 3
  /\ Len(LineValues(lineDelimiter, C15_Lines(text)[3])) = 4
  /\ Len(lineResult.rows) = 1
  /\ lineResult.rows[1][lineResult.headers[5]] = <<>>
  /\ C16_RowsOfAcceptedLines(text, lineDelimiter, lineResult)

\* C17: a data line that fails the 80% rule is dropped and nothing else
\* changes: the rows are the rows of the accepted data lines, one each, in
\* input order, so there are at most (non-blank lines - 1) rows, and a rejected
\* line inserted anywhere among the data lines leaves the result as it was.
C17_RowsAreAcceptedLinesInOrder(t, d, r) ==
  LET accepted == C16_AcceptedLines(t, d, Len(r.headers))
  IN /\ r.rows = [i \in 1..Len(accepted) |->
                    LineRow(r.headers, LineValues(d, accepted[i]))]
     /\ Len(r.rows) <= Len(C15_Lines(t)) - 1

\* the lines that are inserted
C17_ExtraLines == {<<"z">>, <<"z", " ", "z">>, <<"z", ",", "z">>}

\* the lines with the line z put after line p
C17_Insert(lines, p, z) ==
  SubSeq(lines, 1, p) \o <<z>> \o SubSeq(lines, p + 1, Len(lines))

\* z is rejected by the headers r.headers when split at d
C17_Rejects(r, d, z) == 5 * Len(LineValues(d, z)) < 4 * Len(r.headers)

\* the claim as stated: whatever the inserted line does to the delimiter
C17_RejectedLineChangesNothing ==
  (lineResult # None /\ lineDelimiter # "none") =>
    /\ C17_RowsAreAcceptedLinesInOrder(text, lineDelimiter, lineResult)
    /\ LET lines == C15_Lines(text)
       IN \A p \in 1..Len(lines), z \in C17_ExtraLines :
            LET inserted == C17_Insert(lines, p, z)
            IN ( /\ C17_Rejects(lineResult, lineDelimiter, z)
                 /\ C17_Rejects(tableOfLines(inserted), detectDelimiter(inserted), z) )
               => tableOfLines(inserted) = lineResult

\* the claim as amended: the inserted line leaves the detected delimiter as it
\* was
C17_RejectedLineKeepingDelimiterChangesNothing ==
  (lineResult # None /\ lineDelimiter # "none") =>
    /\ C17_RowsAreAcceptedLinesInOrder(text, lineDelimiter, lineResult)
    /\ LET lines == C15_Lines(text)
       IN \A p \in 1..Len(lines), z \in C17_ExtraLines :
            LET inserted == C17_Insert(lines, p, z)
            IN ( /\ C17_Rejects(lineResult, lineDelimiter, z)
                 /\ detectDelimiter(inserted) = lineDelimiter )
               => tableOfLines(inserted) = lineResult

\* a rejected line before an accepted one, and a line that can be inserted
\* after the header line without changing delimiter or result
C17_Witness ==
  /\ lineResult # None
  /\ lineDelimiter = "whitespace"
  /\ Len(C15_Lines(text)) = 3
  /\ Len(lineResult.rows) = 1
  /\ C17_Rejects(lineResult, lineDelimiter, C15_Lines(text)[2])
  /\ \E z \in C17_ExtraLines :
       /\ detectDelimiter(C17_Insert(C15_Lines(text), 1, z)) = lineDelimiter
       /\ C17_Rejects(lineResult, lineDelimiter, z)
       /\ tableOfLines(C17_Insert(C15_Lines(text), 1, z)) = lineResult

\* a line inserted after the sampled lines of a comma-separated text
C17_WitnessAfterSample ==
  /\ lineResult # None
  /\ lineDelimiter = "comma"
  /\ Len(C15_Lines(text)) = 6
  /\ HasRows(lineResult)
  /\ \E z \in C17_ExtraLines :
       /\ detectDelimiter(C17_Insert(C15_Lines(text), 5, z)) = lineDelimiter
       /\ C17_Rejects(lineResult, lineDelimiter, z)
       /\ tableOfLines(C17_Insert(C15_Lines(text), 5, z)) = lineResult

\* C18: the row-number tokens are the all-digit tokens with value in 1..20.
\* With fewer than 2 of them, or with their number different from
\* max - min + 1, the row-number-anchored parser gives no result and the
\* outcome is the result of the keyword fallback on the same stream.
C18_RowNumberPositions(ws) == {i \in 1..Len(ws) : C9_InRange(ws[i], 1, 20)}

C18_Gated(ws) ==
  LET P == C18_RowNumberPositions(ws)
      N == {parseInt(ws[k]) : k \in P}
  IN \/ Cardinality(P) < 2
     \/ \E hi, lo \in N :
          /\ \A n \in N : lo <= n /\ n <= hi
          /\ Cardinality(P) # hi - lo + 1

C18_GatedStreamGoesToFallback ==
  pc = "done" =>
    /\ Len(rowNumbersOf(words)) = Cardinality(C18_RowNumberPositions(words))
    /\ C18_Gated(words) =>
         LET fallback == parseWithPatternDetection(words)
         IN /\ result.confidence # 95
            /\ IF Len(words) >= 6
                 THEN result = fallback
                 ELSE parseTableByPattern(words) = fallback

\* a stream with the numbers 0 and 21 and the single row number 1, on which
\* the fallback returns rows
C18_Witness ==
  /\ pc = "done"
  /\ {<<"0">>, <<"1">>, <<"2", "1">>} \subseteq Range(words)
  /\ Cardinality(C18_RowNumberPositions(words)) = 1
  /\ C18_Gated(words)
  /\ result = parseWithPatternDetection(words)
  /\ result.confidence = 75
  /\ HasRows(result)

\* a stream with 2 row numbers that do not fill their span
C18_WitnessGap ==
  /\ pc = "done"
  /\ Len(words) >= 6
  /\ Cardinality(C18_RowNumberPositions(words)) = 2
  /\ C18_Gated(words)
  /\ <<"1">> \in Range(words)
  /\ result = parseWithPatternDetection(words)
  /\ result.confidence = 75

\* C19: the headers of every result of the row-number-anchored parser are the
\* tokens before the first token "1" of the stream, in order; a stream without
\* a token "1" gets the result of the keyword fallback.
C19_HeadersAreTokensBeforeFirstOne ==
  pc = "done" =>
    /\ ByRowNumbers(result) =>
         /\ \E i \in 1..Len(words) : words[i] = <<"1">>
         /\ \A i \in 1..Len(result.headers) : result.headers[i] = words[i]
         /\ words[Len(result.headers) + 1] = <<"1">>
         /\ \A i \in 1..Len(result.headers) : words[i] # <<"1">>
    /\ (\A i \in 1..Len(words) : words[i] # <<"1">>) =>
         IF Len(words) >= 6
           THEN result = parseWithPatternDetection(words)
           ELSE parseTableByPattern(words) = parseWithPatternDetection(words)

\* a row-number result whose headers are the 2 or more tokens before "1"
C19_Witness ==
  /\ pc = "done"
  /\ ByRowNumbers(result)
  /\ Len(result.headers) >= 2
  /\ result.headers = SubSeq(words, 1, Len(result.headers))
  /\ words[Len(result.headers) + 1] = <<"1">>
  /\ HasRows(result)

\* the row numbers 2, 3 pass the gate but there is no "1": the fallback's
\* result
C19_WitnessNoBoundary ==
  /\ pc = "done"
  /\ Len(words) >= 6
  /\ \A i \in 1..Len(words) : words[i] # <<"1">>
  /\ ~C18_Gated(words)
  /\ result = parseWithPatternDetection(words)
  /\ result.confidence = 75

\* C20: the row-number-anchored parser slices rows by the number of headers
\* before the boundary, whatever the estimated column count: no row holds more
\* cells than there are headers, and headers and rows do not depend on the
\* estimate.
C20_HeaderCountSlicesRows ==
  (pc = "done" /\ ByRowNumbers(result)) =>
    /\ \A i \in 1..Len(result.rows) :
         Cardinality(DOMAIN result.rows[i]) <= Len(result.headers)
    /\ \A columnCount \in 0..12 :
         parseWithKnownStructure(words, columnCount, C6_Span(words)) = result

\* a result reached through the estimate, which differs from the header count
C20_Witness ==
  /\ pc = "done"
  /\ ByRowNumbers(result)
  /\ HasRows(result)
  /\ Len(result.headers) = 1
  /\ RoundDiv(Len(nonNumericWordsOf(words)), C6_Span(words)) >= 2
  /\ \A i \in 1..Len(result.rows) : DOMAIN result.rows[i] = {result.headers[1]}

\* C21: the row walk of the row-number-anchored parser.  Row r first consumes
\* the token r if it is the current token, then takes cell values until
\* columnCount values were taken or the current token is the all-digit number
\* r + 1 (or the tokens are used up); a row that ends short leaves the token
\* r + 1 out of its cells, and row r + 1 starts by consuming that marker; a
\* row that took no value is not emitted.
\* the position (0-based) after the marker of row r, if it is the current token
C21_Start(a, r, s) == IF a[s + 1] = toString(r) THEN s + 1 ELSE s

\* the number of cell values that row r takes from position s on
RECURSIVE C21_Taken(_, _, _, _, _)
C21_Taken(a, r, columnCount, s, n) ==
  IF \/ n = columnCount
     \/ s + n >= Len(a)
     \/ C9_InRange(a[s + n + 1], r + 1, r + 1)
  THEN n
  ELSE C21_Taken(a, r, columnCount, s, n + 1)

\* row r stopped before columnCount values, at a token that is the number r + 1
C21_EndsShort(a, r, columnCount, s, n) ==
  n < columnCount /\ s + n < Len(a)

\* one iteration of the row loop takes the marker and the cells as described
C21_TakesCells ==
  LET a == loop.allDataWords
      r == loop.rowNum
      s == C21_Start(a, r, loop.currentIndex)
      n == C21_Taken(a, r, loop.columnCount, s, 0)
  IN /\ loop'.currentIndex = s + n
     /\ IF n = 0 THEN loop'.rows = loop.rows
        ELSE /\ Len(loop'.rows) = Len(loop.rows) + 1
             /\ SubSeq(loop'.rows, 1, Len(loop.rows)) = loop.rows
             /\ LET row == loop'.rows[Len(loop'.rows)]
                IN /\ \A j \in 1..n : loop.headers[j] \in DOMAIN row
                   /\ \A h \in DOMAIN row :
                        \E j \in 1..n : h = loop.headers[j] /\ row[h] = a[s + j]
                   /\ \A h \in DOMAIN row : ~C9_InRange(row[h], r + 1, r + 1)

\* after a row that ended short the next iteration runs and finds its marker
C21_NextRowTakesMarker ==
  LET a == loop.allDataWords
      r == loop.rowNum
      s == C21_Start(a, r, loop.currentIndex)
      n == C21_Taken(a, r, loop.columnCount, s, 0)
  IN C21_EndsShort(a, r, loop.columnCount, s, n) =>
       /\ loop'.rowNum <= loop'.rowCount
       /\ C21_Start(a, r + 1, loop'.currentIndex) = loop'.currentIndex + 1

C21_InRowLoop == pc = "walk" /\ pc' = "walk" /\ loop' # loop

\* the claim as stated
C21_RowWalk ==
  [][C21_InRowLoop => (C21_TakesCells /\ C21_NextRowTakesMarker)]_vars

\* what holds of every iteration: the marker and the cells are taken as stated
C21_RowWalkTakesCells == [][C21_InRowLoop => C21_TakesCells]_vars

\* a row ended short at the marker "2" and the next row consumed it
C21_WitnessShortRow ==
  /\ pc = "walk"
  /\ loop.rowNum = 3
  /\ Len(loop.headers) = 2
  /\ Len(loop.rows) = 2
  /\ Cardinality(DOMAIN loop.rows[1]) = 1
  /\ loop.allDataWords[3] = <<"2">>

\* C22: the keyword/pattern fallback examines the tokens at positions 1..10
\* only; a token is accepted iff it matches the keyword lexicon, ignoring case,
\* or is longer than 2 characters and not all digits; the headers are the
\* first 8 accepted tokens in stream order, so there are at most 8 and none is
\* taken from position 11 onwards.
C22_Lexicon ==
  { <<"c", "u", "s", "t", "o", "m", "e", "r">>, <<"n", "a", "m", "e">>,
    <<"c", "o", "u", "n", "t", "r", "y">>, <<"e", "m", "a", "i", "l">>,
    <<"p", "h", "o", "n", "e">>, <<"a", "m", "o", "u", "n", "t">>,
    <<"p", "r", "i", "c", "e">>, <<"t", "o", "t", "a", "l">>,
    <<"d", "a", "t", "e">>, <<"s", "t", "a", "t", "u", "s">> }

C22_LexiconAtEnd == { <<"i", "d">>, <<"a", "g", "e">> }

C22_LowerCase(w) == [i \in 1..Len(w) |-> ToLower(w[i])]

C22_MatchesLexicon(w) ==
  LET lw == C22_LowerCase(w)
  IN \/ \E k \in C22_Lexicon :
          \E i \in 1..(Len(lw) - Len(k) + 1) : SubSeq(lw, i, i + Len(k) - 1) = k
     \/ \E k \in C22_LexiconAtEnd :
          Len(lw) >= Len(k) /\ SubSeq(lw, Len(lw) - Len(k) + 1, Len(lw)) = k

C22_AllDigits(w) ==
  w # <<>> /\ \A i \in 1..Len(w) : w[i] \in {"0", "1", "2", "3", "4", "5", "6", "7", "8", "9"}

C22_Accepted(w) == C22_MatchesLexicon(w) \/ (Len(w) > 2 /\ ~C22_AllDigits(w))

\* the positions of the window that hold an accepted token
C22_AcceptedPositions(ws) ==
  {p \in 1..Len(ws) : p <= 10 /\ C22_Accepted(ws[p])}

\* the headers are the tokens at the first 8 accepted positions, in order
C22_HeadersAt(ws, headers) ==
  LET P == C22_AcceptedPositions(ws)
      first == {p \in P : Cardinality({q \in P : q < p}) < 8}
  IN /\ Len(headers) = Cardinality(first)
     /\ \A p \in first : headers[Cardinality({q \in P : q < p}) + 1] = ws[p]

C22_HeadersAreFirstAcceptedOfWindow ==
  (pc = "done" /\ Len(words) >= 6 /\ result.confidence # 95) =>
    /\ C22_HeadersAt(words, result.headers)
    /\ Len(result.headers) <= 8
    /\ \A p \in 1..Len(words) :
         (p >= 11 /\ \A q \in 1..10 : words[q] # words[p])
           => \A j \in 1..Len(result.headers) : result.headers[j] # words[p]

\* 10 accepted tokens in the window and accepted tokens after it: the first 8
\* are the headers
C22_Witness ==
  /\ pc = "done"
  /\ Len(words) = 12
  /\ \A p \in 1..12 : C22_Accepted(words[p])
  /\ result.headers = SubSeq(words, 1, 8)
  /\ result.confidence = 75

\* headers that are not the first tokens: a rejected token comes before them
C22_WitnessInterleaved ==
  /\ pc = "done"
  /\ ~C22_Accepted(words[1])
  /\ ~C22_Accepted(words[3])
  /\ result.headers = <<words[2], words[4]>>
  /\ result.headers[1] = <<"A", "g", "e">>
  /\ Len(words) >= 11
  /\ C22_Accepted(words[11])

\* C23: when none of the first 10 tokens is accepted as a header, the
\* keyword/pattern fallback returns no headers, no rows and confidence 0.
C23_NoneAccepted(ws) == \A p \in 1..Len(ws) : p <= 10 => ~C22_Accepted(ws[p])

C23_NoHeaderGivesNoTable ==
  (pc = "done" /\ C23_NoneAccepted(words)) =>
    /\ parseWithPatternDetection(words) =
         [headers |-> <<>>, rows |-> <<>>, confidence |-> 0]
    /\ (Len(words) >= 6 /\ result.confidence # 95) =>
         result = [headers |-> <<>>, rows |-> <<>>, confidence |-> 0]

\* 10 tokens that are numbers or short words, then two header-like tokens
C23_Witness ==
  /\ pc = "done"
  /\ Len(words) = 12
  /\ C23_NoneAccepted(words)
  /\ C22_Accepted(words[11])
  /\ C22_Accepted(words[12])
  /\ \E p \in 1..10 : C22_AllDigits(words[p])
  /\ \E p \in 1..10 : ~C22_AllDigits(words[p]) /\ Len(words[p]) = 2
  /\ result.headers = <<>>
  /\ result.rows = <<>>
  /\ result.confidence = 0

\* C24: the data pool of the keyword/pattern fallback holds the tokens after
\* the header-candidate window: every cell value of a row is a token found
\* after the last accepted header, so no token occurrence that was accepted as
\* a header is also a cell value, wherever in the stream the headers stand.
\* (On streams of pairwise distinct tokens an occurrence is known by its
\* value.)
\* the position of the last token taken as a header
C24_LastHeaderPosition(ws, headers) ==
  CHOOSE p \in 1..Len(ws) :
    /\ ws[p] = headers[Len(headers)]
    /\ \A q \in 1..Len(ws) : ws[q] = headers[Len(headers)] => q <= p

C24_CellsComeAfterHeaders(ws, r) ==
  \A i \in 1..Len(r.rows) :
    \A h \in DOMAIN r.rows[i] :
      \/ r.rows[i][h] = <<>>
      \/ \E p \in 1..Len(ws) :
           /\ p > C24_LastHeaderPosition(ws, r.headers)
           /\ ws[p] = r.rows[i][h]

C24_ByFallback == pc = "done" /\ Len(words) >= 6 /\ result.confidence = 75

\* the claim as stated
C24_HeaderIsNeverCell ==
  (C24_ByFallback /\ Distinct(words)) =>
    /\ C24_CellsComeAfterHeaders(words, result)
    /\ \A i \in 1..Len(result.rows) :
         \A h \in DOMAIN result.rows[i] :
           \A j \in 1..Len(result.headers) : result.rows[i][h] # result.headers[j]

\* what holds: when the headers are the first tokens of the stream
C24_LeadingHeadersAreNeverCells ==
  (/\ C24_ByFallback
   /\ Distinct(words)
   /\ result.headers = SubSeq(words, 1, Len(result.headers)))
    => C24_CellsComeAfterHeaders(words, result)

C24_WitnessLeadingHeaders ==
  /\ C24_ByFallback
  /\ Distinct(words)
  /\ Len(result.headers) = 3
  /\ result.headers = SubSeq(words, 1, 3)
  /\ Len(result.rows) = 2
  /\ result.rows[1][words[1]] = words[4]

\* C25: chunking in the keyword/pattern fallback.  With h headers and a data
\* pool of d tokens the result has exactly ceil(d / h) rows, row i maps header
\* j to pool token (i - 1) * h + j, and the last group, if shorter than h, is
\* kept with the empty string in its missing cells: every row has an entry for
\* every header.
\* the data pool as the parser takes it
C25_Pool(ws, h) == [k \in 1..(Len(ws) - h) |-> ws[h + k]]

C25_Chunked(r, pool) ==
  LET h == Len(r.headers)
      d == Len(pool)
  IN /\ Len(r.rows) = (d + h - 1) \div h
     /\ \A i \in 1..Len(r.rows) :
          \A j \in 1..h :
            /\ r.headers[j] \in DOMAIN r.rows[i]
            /\ r.rows[i][r.headers[j]] =
                 IF (i - 1) * h + j <= d THEN pool[(i - 1) * h + j] ELSE <<>>

\* the claim as stated
C25_PoolIsChunkedByHeaderCount ==
  (pc = "done" /\ Len(words) >= 6 /\ result.confidence = 75) =>
    C25_Chunked(result, C25_Pool(words, Len(result.headers)))

\* what holds: with pairwise distinct headers
C25_PoolIsChunkedUnderDistinctHeaders ==
  (pc = "done" /\ Len(words) >= 6 /\ result.confidence = 75
   /\ Distinct(result.headers)) =>
    C25_Chunked(result, C25_Pool(words, Len(result.headers)))

\* 3 headers and a pool of 7 tokens: 3 rows, the last with two padded cells
C25_WitnessShortChunk ==
  /\ pc = "done"
  /\ result.confidence = 75
  /\ Len(words) = 10
  /\ Len(result.headers) = 3
  /\ Distinct(result.headers)
  /\ Len(result.rows) = 3
  /\ result.rows[3][result.headers[1]] = words[10]
  /\ result.rows[3][result.headers[2]] = <<>>
  /\ result.rows[3][result.headers[3]] = <<>>

\* C26: every result of the entry point is one of the four outcomes: at least
\* one row with confidence 95, 85 or 75, or no headers, no rows and confidence
\* 0.  No result has zero rows together with headers or with a confidence
\* other than 0.
C26_Outcome(r) ==
  \/ Len(r.rows) >= 1 /\ r.confidence \in {95, 85, 75}
  \/ r = [headers |-> <<>>, rows |-> <<>>, confidence |-> 0]

C26_EveryResultIsAnOutcome ==
  /\ pc = "done" => C26_Outcome(result)
  /\ lineResult # None => C26_Outcome(lineResult)

\* C27: the token-oriented entry point returns no headers, no rows and
\* confidence 0 for every text with fewer than 6 whitespace-separated tokens,
\* and runs no strategy on it; a table of a 2-column header and one 2-cell
\* row (4 tokens) gives no table.
\* the tokens of a text start where a character that is not whitespace follows
\* the start of the text or a whitespace character
C27_TokenCount(t) ==
  Cardinality({i \in 1..Len(t) :
                 /\ t[i] \notin WhitespaceChars
                 /\ (i = 1 \/ t[i - 1] \in WhitespaceChars)})

C27_FewTokensGiveNoTable ==
  /\ (pc \in {"walk", "chunk"} => C27_TokenCount(text) >= 6)
  /\ (pc = "done" /\ C27_TokenCount(text) < 6) =>
       /\ result = [headers |-> <<>>, rows |-> <<>>, confidence |-> 0]
       /\ loop = None
       /\ parseTextAsTable(text) = result

\* a table of 2 columns and one data row: the delimiter-based parser finds
\* the row, the token-oriented entry point returns no table
C27_Witness ==
  /\ pc = "done"
  /\ C27_TokenCount(text) = 4
  /\ Len(words) = 4
  /\ result = [headers |-> <<>>, rows |-> <<>>, confidence |-> 0]
  /\ lineResult # None
  /\ lineResult.headers = <<words[1], words[2]>>
  /\ Len(lineResult.rows) = 1
  /\ lineResult.rows[1][words[1]] = words[3]
  /\ lineResult.rows[1][words[2]] = words[4]

\* 5 tokens, of which two are row numbers
C27_WitnessFiveTokens ==
  /\ pc = "done"
  /\ C27_TokenCount(text) = 5
  /\ Len(rowNumbersOf(words)) = 2
  /\ result = [headers |-> <<>>, rows |-> <<>>, confidence |-> 0]

\* C28: no strategy invents or reorders data.  In every result the headers are
\* a subsequence of the input tokens (or cells), and the non-empty cell values,
\* read row by row and within a row in header order, are a subsequence of the
\* input tokens (or cells) that follow the header tokens.
RECURSIVE C28_IsSubsequence(_, _)
C28_IsSubsequence(a, b) ==
  IF a = <<>> THEN TRUE
  ELSE IF b = <<>> THEN FALSE
  ELSE IF a[1] = b[1] THEN C28_IsSubsequence(Tail(a), Tail(b))
  ELSE C28_IsSubsequence(a, Tail(b))

\* the non-empty cell values of row i in header order
C28_RowValues(r, i) ==
  SelectSeq([j \in 1..Len(r.headers) |->
               IF r.headers[j] \in DOMAIN r.rows[i]
               THEN r.rows[i][r.headers[j]] ELSE <<>>],
            LAMBDA v : v # <<>>)

RECURSIVE C28_ValuesFrom(_, _)
C28_ValuesFrom(r, i) ==
  IF i > Len(r.rows) THEN <<>>
  ELSE C28_RowValues(r, i) \o C28_ValuesFrom(r, i + 1)

\* the cells of a text: the cells of its non-blank lines, line after line
RECURSIVE C28_CellsFrom(_, _, _)
C28_CellsFrom(lines, d, i) ==
  IF i > Len(lines) THEN <<>>
  ELSE LineValues(d, lines[i]) \o C28_CellsFrom(lines, d, i + 1)

C28_NothingInvented(input, r) ==
  \E k \in 0..Len(input) :
    /\ C28_IsSubsequence(r.headers, SubSeq(input, 1, k))
    /\ C28_IsSubsequence(C28_ValuesFrom(r, 1), SubSeq(input, k + 1, Len(input)))

\* the claim as stated
C28_NoStrategyInventsOrReorders ==
  /\ pc = "done" => C28_NothingInvented(words, result)
  /\ (lineResult # None /\ lineDelimiter # "none") =>
       C28_NothingInvented(C28_CellsFrom(C15_Lines(text), lineDelimiter, 1),
                           lineResult)

\* what holds: results with pairwise distinct headers which, in a result of
\* the keyword fallback, are the first tokens of the stream
C28_Proper(input, r) ==
  /\ Distinct(r.headers)
  /\ r.confidence = 75 => r.headers = SubSeq(input, 1, Len(r.headers))

C28_ProperResultsInventNothing ==
  /\ (pc = "done" /\ C28_Proper(words, result)) =>
       C28_NothingInvented(words, result)
  /\ (lineResult # None /\ lineDelimiter # "none" /\ Distinct(lineResult.headers)) =>
       C28_NothingInvented(C28_CellsFrom(C15_Lines(text), lineDelimiter, 1),
                           lineResult)

(***************************************************************************)
(* C29: in every execution of the request handler the document's           *)
(* processing_status is set to 'completed' only after the extracted data   *)
(* was inserted without error and the processing job was updated to status *)
(* 'completed' with progress 100; the job's progress only takes the values *)
(* 10, 80, 100 in that order; and when job creation, extraction or the     *)
(* data insert fails the handler answers success = false with status 400   *)
(* and never writes 'completed' to the job or the document.                *)
(***************************************************************************)
C29_JobCompleted ==
  /\ handler.job # None
  /\ handler.job.status = "completed"
  /\ handler.job.progress = 100

C29_DocumentCompleted == handler.processing_status = "completed"

\* 'completed' on the document only after the insert and the job's update
C29_CompletedAfterStoreAndJob ==
  C29_DocumentCompleted => (handler.extracted_data # None /\ C29_JobCompleted)

C29_ProgressValues == {10, 80, 100}

\* the progress is one of 10, 80, 100
C29_ProgressIsKnown ==
  handler.job # None => handler.job.progress \in C29_ProgressValues

\* one step of the handler never lowers the progress, and creates the job
\* at 10
C29_ProgressStep ==
  /\ (handler.job = None /\ handler'.job # None) => handler'.job.progress = 10
  /\ (handler.job # None) =>
       (handler'.job # None /\ handler'.job.progress >= handler.job.progress)

\* one of the three steps the property names has failed
C29_Failed ==
  \/ handler.thrown \in {"jobError", "dataError"}
  \/ handler.extractionFailed

C29_Answered400 ==
  /\ handler.response # None
  /\ handler.response.status = 400
  /\ "success" \in DOMAIN handler.response
  /\ handler.response.success = FALSE

C29_NothingCompleted ==
  /\ ~C29_DocumentCompleted
  /\ handler.job = None \/ handler.job.status # "completed"
  /\ "jobs.completed" \notin Range(handler.issued)
  /\ "documents.completed" \notin Range(handler.issued)

\* a failed step ends in the answer 400 and leaves nothing completed
C29_FailureAnswers400 ==
  C29_Failed =>
    /\ C29_NothingCompleted
    /\ handler.at = "done" => C29_Answered400

C29_HandlerContract ==
  /\ [](C29_CompletedAfterStoreAndJob /\ C29_ProgressIsKnown
        /\ C29_FailureAnswers400)
  /\ [][C29_ProgressStep]_vars

\* what the handler does keep: the document is completed only after the
\* insert returned no error and the update of the job to 'completed' was
\* issued, in a run where nothing was thrown
C29_CompletedAfterStoreAndIssuedUpdate ==
  C29_DocumentCompleted =>
    /\ handler.extracted_data # None
    /\ handler.extracted_data = handler.extractedData
    /\ handler.thrown = "none"
    /\ \E i, j \in DOMAIN handler.issued :
         /\ i < j
         /\ handler.issued[i] = "jobs.completed"
         /\ handler.issued[j] = "documents.completed"

\* an error the handler reads (of the request, of the job's insert, of the
\* data insert) ends in the answer 400 with nothing completed
C29_ThrownAnswers400 ==
  handler.thrown # "none" =>
    /\ C29_NothingCompleted
    /\ handler.at = "done" => C29_Answered400

\* the progress part of the property holds
C29_ProgressInOrder ==
  /\ [](C29_ProgressIsKnown)
  /\ [][C29_ProgressStep]_vars

\* a failed extraction is stored and answered as a success
C29_WitnessFailedExtractionCompleted ==
  /\ handler.at = "done"
  /\ handler.extractionFailed
  /\ handler.response.status = 200
  /\ C29_DocumentCompleted
  /\ C29_JobCompleted

\* the document is completed while the job is still 'processing'
C29_WitnessDocumentCompletedJobNot ==
  /\ handler.at = "done"
  /\ ~handler.extractionFailed
  /\ C29_DocumentCompleted
  /\ handler.job.status = "processing"

\* a data insert that failed
C29_WitnessDataError ==
  /\ handler.at = "done"
  /\ handler.thrown = "dataError"
  /\ C29_Answered400
  /\ handler.job.progress = 80

====
